---- MODULE Spec2Model ----
(***************************************************************************)
(* Circuit reconstruction and serialization engine.                        *)
(*                                                                         *)
(* Text is modelled as a sequence of pieces.  A piece is a sequence of     *)
(* one-character strings: either a fragment without whitespace, or one of  *)
(* the two whitespace pieces SP and NL.  The string a text stands for is   *)
(* the concatenation of its pieces, so two fragments that follow each      *)
(* other without a whitespace piece between them read back as ONE token.   *)
(***************************************************************************)
EXTENDS Integers, Sequences, FiniteSets, TLC

VARIABLES file, parser, result, calls, out_text, result2, held,
          df, stage, junction_data, wire_lists, asc_content,
          endpoints, wire_obj, angle, verdict,
          service, pc, scratch, outcome

\* the parser, its file and the results of its calls
pvars == <<file, parser, result, calls, out_text, result2, held>>

\* the detections of an image and what process_image has made of them
ivars == <<df, stage, junction_data, wire_lists, asc_content>>

\* the arguments of one Wire(...) call, the object it made, and one value of
\* slope_as_angle with the class test_if_wire_is_valid gives it
wvars == <<endpoints, wire_obj, angle, verdict>>

\* one call of a service method that keeps its input in a scratch file:
\* the method, the position reached in it, the scratch file, how it ended
svars == <<service, pc, scratch, outcome>>

vars == <<pvars, ivars, wvars, svars>>

(***************************************************************************)
(* Characters, tokens, whitespace                                          *)
(***************************************************************************)
SP == <<" ">>
NL == <<"\n">>

DigitChars == <<"0", "1", "2", "3", "4", "5", "6", "7", "8", "9">>

Digits == {DigitChars[k] : k \in 1..10}

DigitVal(c) == (CHOOSE k \in 1..10 : DigitChars[k] = c) - 1

K_Version == <<"V", "e", "r", "s", "i", "o", "n">>
K_SHEET == <<"S", "H", "E", "E", "T">>
K_SYMBOL == <<"S", "Y", "M", "B", "O", "L">>
K_SYMATTR == <<"S", "Y", "M", "A", "T", "T", "R">>
K_WIRE == <<"W", "I", "R", "E">>
K_FLAG == <<"F", "L", "A", "G">>
K_InstName == <<"I", "n", "s", "t", "N", "a", "m", "e">>
K_name == <<"n", "a", "m", "e">>

\* Python's None for the optional fields version and sheet: an optional
\* value is a sequence of length 0 (None) or 1 (the value).
None == <<>>

Some(v) == <<v>>

\* the k-th smallest member of a set of numbers
Kth(S, k) == CHOOSE i \in S : Cardinality({j \in S : j <= i}) = k

(***************************************************************************)
(* str.format of an integer, and int() of a token                          *)
(***************************************************************************)
RECURSIVE NatToTok(_)
NatToTok(n) ==
    IF n < 10 THEN <<DigitChars[n + 1]>>
    ELSE Append(NatToTok(n \div 10), DigitChars[(n % 10) + 1])

IntToTok(n) == IF n < 0 THEN <<"-">> \o NatToTok(-n) ELSE NatToTok(n)

IntBody(tok) ==
    IF Len(tok) > 0 /\ tok[1] \in {"+", "-"} THEN Tail(tok) ELSE tok

\* int(tok) succeeds: an optional sign, then digits, single underscores
\* allowed between digits
IsInt(tok) ==
    LET b == IntBody(tok) IN
    /\ Len(b) > 0
    /\ \A k \in 1..Len(b) : b[k] \in Digits \cup {"_"}
    /\ b[1] \in Digits
    /\ b[Len(b)] \in Digits
    /\ \A k \in 1..(Len(b) - 1) : ~(b[k] = "_" /\ b[k + 1] = "_")

RECURSIVE DigitsToNat(_)
DigitsToNat(b) ==
    IF Len(b) = 0 THEN 0
    ELSE IF b[Len(b)] = "_" THEN DigitsToNat(SubSeq(b, 1, Len(b) - 1))
    ELSE 10 * DigitsToNat(SubSeq(b, 1, Len(b) - 1)) + DigitVal(b[Len(b)])

ToInt(tok) ==
    IF tok[1] = "-" THEN 0 - DigitsToNat(IntBody(tok))
    ELSE DigitsToNat(IntBody(tok))

(***************************************************************************)
(* file.readlines(), str.strip().split(), str.startswith                   *)
(***************************************************************************)
\* the raw lines of a text: split after every NL piece; a last line without
\* a newline is a line too
RECURSIVE ReadLinesFrom(_, _, _)
ReadLinesFrom(text, k, cur) ==
    IF k > Len(text) THEN (IF cur = <<>> THEN <<>> ELSE <<cur>>)
    ELSE IF text[k] = NL THEN <<cur>> \o ReadLinesFrom(text, k + 1, <<>>)
    ELSE ReadLinesFrom(text, k + 1, Append(cur, text[k]))

ReadLines(text) == ReadLinesFrom(text, 1, <<>>)

\* the tokens of one raw line: maximal runs of fragments between whitespace
RECURSIVE SplitFrom(_, _, _)
SplitFrom(raw, k, cur) ==
    IF k > Len(raw) THEN (IF cur = <<>> THEN <<>> ELSE <<cur>>)
    ELSE IF raw[k] = SP
         THEN (IF cur = <<>> THEN <<>> ELSE <<cur>>) \o SplitFrom(raw, k + 1, <<>>)
    ELSE SplitFrom(raw, k + 1, cur \o raw[k])

Split(raw) == SplitFrom(raw, 1, <<>>)

\* lines[i].strip().startswith(kw), on the tokens of the line: the stripped
\* line starts with its first token, and no keyword holds whitespace
StartsWith(parts, kw) ==
    /\ Len(parts) > 0
    /\ Len(parts[1]) >= Len(kw)
    /\ SubSeq(parts[1], 1, Len(kw)) = kw

(***************************************************************************)
(* ASCParser                                                               *)
(***************************************************************************)
\* ASCParser.__init__
NewParser ==
    [components |-> <<>>, wires |-> <<>>, flags |-> <<>>,
     version |-> None, sheet |-> None, component_counter |-> 0]

\* the exceptions the parser's list indexing and int() raise; a ValueError
\* carries the token int() rejected, an IndexError carries nothing
NoExc == [type |-> "", token |-> <<>>]

IndexError == [type |-> "IndexError", token |-> <<>>]

ValueError(tok) == [type |-> "ValueError", token |-> tok]

\* Reading the fields parts[1], parts[2], ... of a split line in order;
\* kinds[k] = "i" where the code applies int() to parts[k], "s" where it
\* uses the token as it is.  The first failing read decides the exception.
RECURSIVE FieldError(_, _, _)
FieldError(parts, kinds, k) ==
    IF k > Len(kinds) THEN NoExc
    ELSE IF Len(parts) < k + 1 THEN IndexError
    ELSE IF kinds[k] = "i" /\ ~IsInt(parts[k + 1]) THEN ValueError(parts[k + 1])
    ELSE FieldError(parts, kinds, k + 1)

SheetKinds == <<"i", "i", "i">>
SymbolKinds == <<"s", "i", "i", "s">>
SymattrKinds == <<"s">>
WireKinds == <<"i", "i", "i", "i">>
FlagKinds == <<"i", "i", "s">>
VersionKinds == <<"s">>

\* ASCParser._parse_symbol_line: the component of a SYMBOL line whose
\* fields read without error; id stands for the string "comp_<id>"
_parse_symbol_line(counter, parts) ==
    [id |-> counter + 1, type |-> parts[2], x |-> ToInt(parts[3]),
     y |-> ToInt(parts[4]), rotation |-> parts[5], attributes |-> <<>>]

\* dict assignment d[key] = value on an insertion-ordered dict, kept as a
\* sequence of <<key, value>> pairs
DictSet(d, key, value) ==
    IF \E k \in 1..Len(d) : d[k][1] = key
    THEN [k \in 1..Len(d) |-> IF d[k][1] = key THEN <<key, value>> ELSE d[k]]
    ELSE Append(d, <<key, value>>)

DictHas(d, key) == \E k \in 1..Len(d) : d[k][1] = key

DictGet(d, key, default) ==
    IF DictHas(d, key) THEN d[CHOOSE k \in 1..Len(d) : d[k][1] = key][2]
    ELSE default

\* _add_symattr_to_component without the InstName -> name renaming
_add_symattr_verbatim(component, parts) ==
    [component EXCEPT !.attributes =
        DictSet(@, parts[2], IF Len(parts) > 2 THEN SubSeq(parts, 3, Len(parts)) ELSE <<>>)]

\* ASCParser._add_symattr_to_component: the value is the remaining tokens
\* joined by single spaces, kept as the sequence of those tokens ("" is <<>>)
_add_symattr_to_component(component, parts) ==
    LET attr_type == parts[2]
        attr_value == IF Len(parts) > 2 THEN SubSeq(parts, 3, Len(parts)) ELSE <<>>
    IN IF attr_type = K_InstName
       THEN [component EXCEPT !.attributes = DictSet(@, K_name, attr_value)]
       ELSE [component EXCEPT !.attributes = DictSet(@, attr_type, attr_value)]

\* _parse_wire_line reading the last two fields in the wrong order
_parse_wire_line_swapped(parts) ==
    [x1 |-> ToInt(parts[2]), y1 |-> ToInt(parts[3]),
     x2 |-> ToInt(parts[5]), y2 |-> ToInt(parts[4])]

\* ASCParser._parse_wire_line
_parse_wire_line(parts) ==
    [x1 |-> ToInt(parts[2]), y1 |-> ToInt(parts[3]),
     x2 |-> ToInt(parts[4]), y2 |-> ToInt(parts[5])]

\* ASCParser._parse_flag_line
_parse_flag_line(parts) ==
    [x |-> ToInt(parts[2]), y |-> ToInt(parts[3]), net_name |-> parts[4]]

\* the inner while loop of parse: the SYMATTR lines that directly follow
\* line i.  Gives the component, the index of the last line consumed, and
\* the exception of the first attribute line that fails.
RECURSIVE ConsumeAttrs(_, _, _)
ConsumeAttrs(lines, i, component) ==
    IF i <= Len(lines) /\ StartsWith(lines[i], K_SYMATTR)
    THEN LET e == FieldError(lines[i], SymattrKinds, 1) IN
         IF e # NoExc THEN [component |-> component, last |-> i, exc |-> e]
         ELSE ConsumeAttrs(lines, i + 1, _add_symattr_to_component(component, lines[i]))
    ELSE [component |-> component, last |-> i - 1, exc |-> NoExc]

Raised(st, e, i) == [ok |-> FALSE, st |-> st, exc |-> e, at |-> i]

\* the while loop of parse over the split lines, from line i on; "at" is
\* the line the loop stood on when an exception left it (bookkeeping of the
\* model: the exception itself does not carry it)
RECURSIVE ParseLoop(_, _, _)
ParseLoop(st, lines, i) ==
    IF i > Len(lines) THEN [ok |-> TRUE, st |-> st, exc |-> NoExc, at |-> 0]
    ELSE
    LET line == lines[i] IN
    IF StartsWith(line, K_Version) THEN
        LET e == FieldError(line, VersionKinds, 1) IN
        IF e # NoExc THEN Raised(st, e, i)
        ELSE ParseLoop([st EXCEPT !.version = Some(line[2])], lines, i + 1)
    ELSE IF StartsWith(line, K_SHEET) THEN
        LET e == FieldError(line, SheetKinds, 1) IN
        IF e # NoExc THEN Raised(st, e, i)
        ELSE ParseLoop([st EXCEPT !.sheet =
                            Some([number |-> ToInt(line[2]),
                                  width |-> ToInt(line[3]),
                                  height |-> ToInt(line[4])])], lines, i + 1)
    ELSE IF StartsWith(line, K_SYMBOL) THEN
        LET e == FieldError(line, SymbolKinds, 1) IN
        IF e # NoExc THEN Raised(st, e, i)
        ELSE LET c == _parse_symbol_line(st.component_counter, line)
                 st1 == [st EXCEPT !.component_counter = @ + 1]
                 a == ConsumeAttrs(lines, i + 1, c)
             IN IF a.exc # NoExc THEN Raised(st1, a.exc, a.last)
                ELSE ParseLoop([st1 EXCEPT !.components = Append(@, a.component)],
                               lines, a.last + 1)
    ELSE IF StartsWith(line, K_WIRE) THEN
        LET e == FieldError(line, WireKinds, 1) IN
        IF e # NoExc THEN Raised(st, e, i)
        ELSE ParseLoop([st EXCEPT !.wires = Append(@, _parse_wire_line(line))],
                       lines, i + 1)
    ELSE IF StartsWith(line, K_FLAG) THEN
        LET e == FieldError(line, FlagKinds, 1) IN
        IF e # NoExc THEN Raised(st, e, i)
        ELSE ParseLoop([st EXCEPT !.flags = Append(@, _parse_flag_line(line))],
                       lines, i + 1)
    ELSE ParseLoop(st, lines, i + 1)

\* a component key that leaves the name attribute out
ComponentKey_NoName(c) == <<c.type, c.x, c.y, c.rotation>>

\* the key of _remove_duplicate_components
ComponentKey(c) ==
    <<c.type, c.x, c.y, c.rotation, DictGet(c.attributes, K_name, <<>>)>>

RECURSIVE DedupComponents(_, _, _)
DedupComponents(components, k, unique) ==
    IF k > Len(components) THEN unique
    ELSE IF \E u \in 1..Len(unique) :
               ComponentKey(unique[u]) = ComponentKey(components[k])
         THEN DedupComponents(components, k + 1, unique)
         ELSE DedupComponents(components, k + 1, Append(unique, components[k]))

\* ASCParser._remove_duplicate_components
_remove_duplicate_components(components) == DedupComponents(components, 1, <<>>)

\* Python's order on 2-tuples of integers
TupleLess(p, q) == p[1] < q[1] \/ (p[1] = q[1] /\ p[2] < q[2])

\* min(p, q) and max(p, q) of two tuples: the first argument wins a tie
TupleMin(p, q) == IF TupleLess(q, p) THEN q ELSE p

TupleMax(p, q) == IF TupleLess(p, q) THEN q ELSE p

\* a wire key that keeps the endpoints in file order
WireKey_Directed(w) == <<w.x1, w.y1, w.x2, w.y2>>

\* the key of _remove_duplicate_wires
WireKey(w) ==
    LET lo == TupleMin(<<w.x1, w.y1>>, <<w.x2, w.y2>>)
        hi == TupleMax(<<w.x1, w.y1>>, <<w.x2, w.y2>>)
    IN <<lo[1], lo[2], hi[1], hi[2]>>

RECURSIVE DedupWires(_, _, _)
DedupWires(wires, k, unique) ==
    IF k > Len(wires) THEN unique
    ELSE IF \E u \in 1..Len(unique) : WireKey(unique[u]) = WireKey(wires[k])
         THEN DedupWires(wires, k + 1, unique)
         ELSE DedupWires(wires, k + 1, Append(unique, wires[k]))

\* a wire dedup that stops after it has removed one duplicate
_remove_duplicate_wires_once(wires) ==
    LET dups == {k \in 1..Len(wires) :
                    \E j \in 1..(k - 1) : WireKey(wires[j]) = WireKey(wires[k])}
    IN IF dups = {} THEN wires
       ELSE LET d == CHOOSE k \in dups : \A j \in dups : k <= j
            IN SubSeq(wires, 1, d - 1) \o SubSeq(wires, d + 1, Len(wires))

\* ASCParser._remove_duplicate_wires
_remove_duplicate_wires(wires) == DedupWires(wires, 1, <<>>)

\* ASCParser._to_json
_to_json(st) ==
    [version |-> st.version, sheet |-> st.sheet, components |-> st.components,
     wires |-> st.wires, flags |-> st.flags]

\* what a call of parse() gives: the parser's fields afterwards and either
\* the dictionary returned or the exception that left the call
NoResult == [status |-> "none", data |-> None, exc |-> NoExc, at |-> 0]

\* ASCParser.parse on a parser in state st reading the given text
parse(st, text) ==
    LET lines == [k \in 1..Len(ReadLines(text)) |-> Split(ReadLines(text)[k])]
        r == ParseLoop(st, lines, 1)
    IN IF ~r.ok
       THEN [parser |-> r.st,
             result |-> [status |-> "raised", data |-> None, exc |-> r.exc, at |-> r.at]]
       ELSE LET st2 == [r.st EXCEPT
                           !.components = _remove_duplicate_components(@),
                           !.wires = _remove_duplicate_wires(@)]
            IN [parser |-> st2,
                result |-> [status |-> "returned", data |-> Some(_to_json(st2)),
                            exc |-> NoExc, at |-> 0]]

\* the parser's fields when the while loop of parse() on the text has ended
\* or has been left by an exception, before any duplicate is removed
LoopState(st, text) ==
    ParseLoop(st, [k \in 1..Len(ReadLines(text)) |-> Split(ReadLines(text)[k])], 1).st

\* _to_json puts the parser's own list objects into the dictionary, so the
\* dictionary the first parse() returned changes with them: self.flags is
\* one list for the parser's life and every later call appends to it;
\* self.components and self.wires are the first call's lists until the
\* second call rebinds them after its loop, so that call's loop appends to
\* them.  h is the dictionary as its holder sees it before call number
\* n + 1, raw the parser's fields after that call's loop.
Aliased(h, raw, n) ==
    IF h = None THEN None
    ELSE Some([h[1] EXCEPT !.flags = raw.flags,
                           !.components = IF n = 1 THEN raw.components ELSE @,
                           !.wires = IF n = 1 THEN raw.wires ELSE @])

\* the dictionary a first call of parse() hands to its caller, if any
FirstHeld(res) == IF res.status = "returned" THEN res.data ELSE None

\* parse() of a freshly constructed ASCParser
ParseText(text) == parse(NewParser, text).result

(***************************************************************************)
(* Schematic Text Serializer (spec section 4.2)                            *)
(***************************************************************************)
\* one output line: its tokens separated by single spaces, then a newline
LineText(tokens) ==
    [k \in 1..(2 * Len(tokens)) |->
        IF k = 2 * Len(tokens) THEN NL
        ELSE IF k % 2 = 1 THEN tokens[(k + 1) \div 2] ELSE SP]

RECURSIVE Flatten(_)
Flatten(seqs) == IF seqs = <<>> THEN <<>> ELSE Head(seqs) \o Flatten(Tail(seqs))

\* the wire with the endpoint nearer the origin listed first; on equal
\* distances the order is kept (section 4.4 tie-break rule)
NormalizedWire(w) ==
    IF w.x2 * w.x2 + w.y2 * w.y2 < w.x1 * w.x1 + w.y1 * w.y1
    THEN [x1 |-> w.x2, y1 |-> w.y2, x2 |-> w.x1, y2 |-> w.y1]
    ELSE w

AttrLine(a) ==
    <<K_SYMATTR, IF a[1] = K_name THEN K_InstName ELSE a[1]>> \o a[2]

ComponentLines(c) ==
    <<<<K_SYMBOL, c.type, IntToTok(c.x), IntToTok(c.y), c.rotation>>>>
    \o [k \in 1..Len(c.attributes) |-> AttrLine(c.attributes[k])]

WireLine(w) ==
    LET n == NormalizedWire(w) IN
    <<K_WIRE, IntToTok(n.x1), IntToTok(n.y1), IntToTok(n.x2), IntToTok(n.y2)>>

FlagLine(f) == <<K_FLAG, IntToTok(f.x), IntToTok(f.y), f.net_name>>

\* every line the serializer produces for a model, before suppression
EmittedLines(m) ==
    (IF m.version = None THEN <<>> ELSE <<<<K_Version, m.version[1]>>>>)
    \o (IF m.sheet = None THEN <<>>
        ELSE <<<<K_SHEET, IntToTok(m.sheet[1].number),
                 IntToTok(m.sheet[1].width), IntToTok(m.sheet[1].height)>>>>)
    \o Flatten([k \in 1..Len(m.components) |-> ComponentLines(m.components[k])])
    \o [k \in 1..Len(m.wires) |-> WireLine(m.wires[k])]
    \o [k \in 1..Len(m.flags) |-> FlagLine(m.flags[k])]

\* a line identical to an earlier line is suppressed, first occurrence kept
RECURSIVE SuppressRepeats(_, _, _)
SuppressRepeats(ls, k, kept) ==
    IF k > Len(ls) THEN kept
    ELSE IF \E u \in 1..Len(kept) : kept[u] = ls[k]
         THEN SuppressRepeats(ls, k + 1, kept)
         ELSE SuppressRepeats(ls, k + 1, Append(kept, ls[k]))

Serialize(m) ==
    LET ls == SuppressRepeats(EmittedLines(m), 1, <<>>) IN
    Flatten([k \in 1..Len(ls) |-> LineText(ls[k])])

(***************************************************************************)
(* Wire (circuit_recognizer.py).  Detection coordinates are integers in    *)
(* this model, so int() of a coordinate is the coordinate itself.          *)
(***************************************************************************)
limit == 10

\* tan(10 degrees) = 0.17632698..., as a fraction; no fraction p/q with
\* q < 2000 lies between the two, so comparing a slope of integer
\* coordinates below 2000 against it decides as the real tangent does
Tan10Num == 176327

Tan10Den == 1000000

Abs(n) == IF n < 0 THEN 0 - n ELSE n

\* math.degrees(math.atan2(dy, dx)) % 360 for integers dx, dy, up to the
\* comparisons the code makes: the exact value on the axes, otherwise the
\* middle of the zone between the angles 0, 10, 80, 90, 100, 170, 180, 190,
\* 260, 270, 280, 350, 360 that the angle lies in
SlopeAngle(dx, dy) ==
    LET near_h == Abs(dy) * Tan10Den < Abs(dx) * Tan10Num
        near_v == Abs(dx) * Tan10Den < Abs(dy) * Tan10Num
    IN IF dy = 0 THEN (IF dx >= 0 THEN 0 ELSE 180)
       ELSE IF dx = 0 THEN (IF dy > 0 THEN 90 ELSE 270)
       ELSE IF dx > 0 /\ dy > 0 THEN (IF near_h THEN 5 ELSE IF near_v THEN 85 ELSE 45)
       ELSE IF dx < 0 /\ dy > 0 THEN (IF near_v THEN 95 ELSE IF near_h THEN 175 ELSE 135)
       ELSE IF dx < 0 /\ dy < 0 THEN (IF near_h THEN 185 ELSE IF near_v THEN 265 ELSE 225)
       ELSE (IF near_v THEN 275 ELSE IF near_h THEN 355 ELSE 315)

\* the classification of Wire.test_if_wire_is_valid for a slope angle
Orientation(slope_as_angle) ==
    IF (~(limit < slope_as_angle /\ slope_as_angle <= 360 - limit))
       \/ (180 - limit <= slope_as_angle /\ slope_as_angle < 180 + limit)
    THEN "h"
    ELSE IF (90 - limit < slope_as_angle /\ slope_as_angle < 90 + limit)
            \/ (270 - limit < slope_as_angle /\ slope_as_angle < 270 + limit)
    THEN "v"
    ELSE "o"

\* Wire.test_if_wire_is_valid
test_if_wire_is_valid(x_start, y_start, x_end, y_end) ==
    Orientation(SlopeAngle(x_start - x_end, y_start - y_end))

\* Wire.select_starting_point: sqrt is increasing, so the squares decide
select_starting_point(x1, y1, x2, y2) ==
    IF x1 * x1 + y1 * y1 < x2 * x2 + y2 * y2 THEN 1 ELSE 2

\* Wire.__init__
Wire(x1, y1, x2, y2) ==
    IF select_starting_point(x1, y1, x2, y2) = 1
    THEN [x_start |-> x1, y_start |-> y1, x_end |-> x2, y_end |-> y2,
          orientation |-> test_if_wire_is_valid(x1, y1, x2, y2)]
    ELSE [x_start |-> x2, y_start |-> y2, x_end |-> x1, y_end |-> y1,
          orientation |-> test_if_wire_is_valid(x2, y2, x1, y1)]

\* Wire.straighten_wires
straighten_wires(w) ==
    IF w.orientation = "h" THEN [w EXCEPT !.y_end = w.y_start]
    ELSE IF w.orientation = "v" THEN [w EXCEPT !.x_end = w.x_start]
    ELSE w

(***************************************************************************)
(* CircuitRecognitionService._process_junctions.  A data frame is a        *)
(* sequence of rows [name, xcenter, ycenter]; a row's position is its      *)
(* index label.  iterrows() hands out the rows as they were when the loop  *)
(* started, data.loc reads and writes the frame as it is now.              *)
(***************************************************************************)
AlignThreshold == 50

GridUnit == 16

\* the inner loop with the test on y made for every row2, not only for
\* those that fail the test on x
RECURSIVE AlignLists_BothAxes(_, _, _, _, _, _)
AlignLists_BothAxes(row, i, rows2, j, align_x, align_y) ==
    IF j > Len(rows2) THEN [align_x |-> align_x, align_y |-> align_y]
    ELSE IF j = i THEN AlignLists_BothAxes(row, i, rows2, j + 1, align_x, align_y)
    ELSE AlignLists_BothAxes(row, i, rows2, j + 1,
            IF Abs(row.xcenter - rows2[j].xcenter) < AlignThreshold
            THEN align_x \o <<i, j>> ELSE align_x,
            IF Abs(row.ycenter - rows2[j].ycenter) < AlignThreshold
            THEN align_y \o <<i, j>> ELSE align_y)

\* the inner loop over row2: the lists align_x and align_y of outer row i
RECURSIVE AlignLists(_, _, _, _, _, _)
AlignLists(row, i, rows2, j, align_x, align_y) ==
    IF j > Len(rows2) THEN [align_x |-> align_x, align_y |-> align_y]
    ELSE IF j = i THEN AlignLists(row, i, rows2, j + 1, align_x, align_y)
    ELSE IF Abs(row.xcenter - rows2[j].xcenter) < AlignThreshold
         THEN AlignLists(row, i, rows2, j + 1, align_x \o <<i, j>>, align_y)
    ELSE IF Abs(row.ycenter - rows2[j].ycenter) < AlignThreshold
         THEN AlignLists(row, i, rows2, j + 1, align_x, align_y \o <<i, j>>)
    ELSE AlignLists(row, i, rows2, j + 1, align_x, align_y)

\* for index in align_x: data.loc[index, "xcenter"] = data.loc[align_x[0], "xcenter"]
RECURSIVE EquateX(_, _, _)
EquateX(data, align_x, k) ==
    IF k > Len(align_x) THEN data
    ELSE EquateX([data EXCEPT ![align_x[k]].xcenter = data[align_x[1]].xcenter],
                 align_x, k + 1)

RECURSIVE EquateY(_, _, _)
EquateY(data, align_y, k) ==
    IF k > Len(align_y) THEN data
    ELSE EquateY([data EXCEPT ![align_y[k]].ycenter = data[align_y[1]].ycenter],
                 align_y, k + 1)

\* the outer alignment loop from row i on; rows is the frame as it was
\* when the loop started
RECURSIVE AlignFrom(_, _, _)
AlignFrom(data, rows, i) ==
    IF i > Len(rows) THEN data
    ELSE LET l == AlignLists(rows[i], i, data, 1, <<>>, <<>>)
         IN AlignFrom(EquateY(EquateX(data, l.align_x, 1), l.align_y, 1), rows, i + 1)

AlignJunctions(data) == AlignFrom(data, data, 1)

\* the two loops that move every coordinate down to the 16 x 16 grid
SnapToGrid(data) ==
    [k \in 1..Len(data) |->
        [data[k] EXCEPT
            !.xcenter = IF @ % GridUnit = 0 THEN @ ELSE @ - (@ % GridUnit),
            !.ycenter = IF @ % GridUnit = 0 THEN @ ELSE @ - (@ % GridUnit)]]

NoWires == [wires |-> <<>>, wires_horizontal |-> <<>>, wires_vertical |-> <<>>]

\* the double loop without the list checked_coordinates
RECURSIVE WiresFrom_Unchecked(_, _, _, _, _)
WiresFrom_Unchecked(data, i, j, checked_coordinates, acc) ==
    IF i > Len(data) THEN acc
    ELSE IF j > Len(data) THEN WiresFrom_Unchecked(data, i + 1, 1, checked_coordinates, acc)
    ELSE LET wire == Wire(data[i].xcenter, data[i].ycenter,
                          data[j].xcenter, data[j].ycenter)
         IN IF i = j \/ wire.orientation = "o"
            THEN WiresFrom_Unchecked(data, i, j + 1, checked_coordinates, acc)
            ELSE IF wire.orientation = "h"
                 THEN WiresFrom_Unchecked(data, i, j + 1, checked_coordinates,
                                [acc EXCEPT !.wires_horizontal = Append(@, wire),
                                            !.wires = Append(@, wire)])
            ELSE WiresFrom_Unchecked(data, i, j + 1, checked_coordinates,
                           [acc EXCEPT !.wires_vertical = Append(@, wire),
                                       !.wires = Append(@, wire)])

\* the double loop that makes the wires, from the pair (i, j) on
RECURSIVE WiresFrom(_, _, _, _, _)
WiresFrom(data, i, j, checked_coordinates, acc) ==
    IF i > Len(data) THEN acc
    ELSE IF j > Len(data) THEN WiresFrom(data, i + 1, 1, checked_coordinates, acc)
    ELSE IF <<i, j>> \in checked_coordinates \/ <<j, i>> \in checked_coordinates
         THEN WiresFrom(data, i, j + 1, checked_coordinates, acc)
    ELSE LET checked == checked_coordinates \cup {<<i, j>>, <<j, i>>}
             wire == Wire(data[i].xcenter, data[i].ycenter,
                          data[j].xcenter, data[j].ycenter)
         IN IF i = j THEN WiresFrom(data, i, j + 1, checked, acc)
            ELSE IF wire.orientation = "o" THEN WiresFrom(data, i, j + 1, checked, acc)
            ELSE IF wire.orientation = "h"
                 THEN WiresFrom(data, i, j + 1, checked,
                                [acc EXCEPT !.wires_horizontal = Append(@, wire),
                                            !.wires = Append(@, wire)])
            ELSE WiresFrom(data, i, j + 1, checked,
                           [acc EXCEPT !.wires_vertical = Append(@, wire),
                                       !.wires = Append(@, wire)])

\* _process_junctions: the junction frame after alignment and snapping,
\* and the three wire lists returned
_process_junctions(data) ==
    LET aligned == SnapToGrid(AlignJunctions(data))
    IN [data |-> aligned, wires |-> WiresFrom(aligned, 1, 1, {}, NoWires)]

(***************************************************************************)
(* CircuitRecognitionService._generate_asc_content                         *)
(***************************************************************************)
T_voltage == <<"v", "o", "l", "t", "a", "g", "e">>
T_ind == <<"i", "n", "d">>
T_R90 == <<"R", "9", "0">>
T_R270 == <<"R", "2", "7", "0">>

\* the numbers and words in which the placement loops of the component
\* classes differ: tolerance across a vertical and a horizontal wire,
\* offset on the axis fixed by the wire, offset along the wire
\* the resistor loop without the offset of 16 on the axis the wire fixes
ResistorLoop_NoOffset ==
    [symbol |-> <<"r", "e", "s">>, letter |-> <<"R">>, v_tol |-> 35, h_tol |-> 35,
     fixed_off |-> 0, along_off |-> 0, v_rot |-> <<"R", "0">>, h_rot |-> T_R90]

ResistorLoop ==
    [symbol |-> <<"r", "e", "s">>, letter |-> <<"R">>, v_tol |-> 35, h_tol |-> 35,
     fixed_off |-> 16, along_off |-> 0, v_rot |-> <<"R", "0">>, h_rot |-> T_R90]

VoltageLoop ==
    [symbol |-> T_voltage, letter |-> <<"V">>, v_tol |-> 25, h_tol |-> 25,
     fixed_off |-> 0, along_off |-> 96, v_rot |-> <<"R", "0">>, h_rot |-> T_R270]

\* the capacitor loop with a tolerance of 500 across a vertical wire
CapacitorLoop_Wide ==
    [symbol |-> <<"c", "a", "p">>, letter |-> <<"C">>, v_tol |-> 500, h_tol |-> 25,
     fixed_off |-> 16, along_off |-> 0, v_rot |-> <<"R", "0">>, h_rot |-> T_R90]

CapacitorLoop ==
    [symbol |-> <<"c", "a", "p">>, letter |-> <<"C">>, v_tol |-> 50, h_tol |-> 25,
     fixed_off |-> 16, along_off |-> 0, v_rot |-> <<"R", "0">>, h_rot |-> T_R90]

InductorLoop ==
    [symbol |-> T_ind, letter |-> <<"L">>, v_tol |-> 35, h_tol |-> 35,
     fixed_off |-> 16, along_off |-> 0, v_rot |-> <<"R", "0">>, h_rot |-> T_R90]

GroundTolerance == 200

\* "SYMBOL <symbol> <x> <y> <rotation>\nSYMATTR InstName <letter><counter>\n"
SymbolEntry(symbol, x, y, rotation, letter, counter) ==
    <<K_SYMBOL, SP, symbol, SP, IntToTok(x), SP, IntToTok(y), SP, rotation, NL,
      K_SYMATTR, SP, K_InstName, SP, letter \o IntToTok(counter), NL>>

VerticalTest(wire, row, tol) ==
    /\ wire.y_start < row.ycenter /\ row.ycenter < wire.y_end
    /\ wire.x_start - tol < row.xcenter /\ row.xcenter < wire.x_end + tol

HorizontalTest(wire, row, tol) ==
    /\ wire.x_start < row.xcenter /\ row.xcenter < wire.x_end
    /\ wire.y_start - tol < row.ycenter /\ row.ycenter < wire.y_end + tol

\* one placement loop: for each row of the class, for each wire; gives the
\* entries appended to asc_lines, the counter running on from entry to entry
RECURSIVE PlaceFrom(_, _, _, _, _, _)
PlaceFrom(rows, w, r, k, c, counter) ==
    IF r > Len(rows) THEN <<>>
    ELSE IF k > Len(w.wires) THEN PlaceFrom(rows, w, r + 1, 1, c, counter)
    ELSE LET wire == w.wires[k]
             row == rows[r]
             in_v == \E v \in 1..Len(w.wires_vertical) : w.wires_vertical[v] = wire
             in_h == \E h \in 1..Len(w.wires_horizontal) : w.wires_horizontal[h] = wire
         IN IF in_v
            THEN (IF VerticalTest(wire, row, c.v_tol)
                  THEN <<SymbolEntry(c.symbol, wire.x_start - c.fixed_off,
                                     row.ycenter - c.along_off, c.v_rot,
                                     c.letter, counter)>>
                       \o PlaceFrom(rows, w, r, k + 1, c, counter + 1)
                  ELSE PlaceFrom(rows, w, r, k + 1, c, counter))
            ELSE IF in_h
            THEN (IF HorizontalTest(wire, row, c.h_tol)
                  THEN <<SymbolEntry(c.symbol, row.xcenter - c.along_off,
                                     wire.y_start - c.fixed_off, c.h_rot,
                                     c.letter, counter)>>
                       \o PlaceFrom(rows, w, r, k + 1, c, counter + 1)
                  ELSE PlaceFrom(rows, w, r, k + 1, c, counter))
            ELSE PlaceFrom(rows, w, r, k + 1, c, counter)

\* a placement loop whose counter starts at 0
PlaceLoop_From0(rows, w, c) == PlaceFrom(rows, w, 1, 1, c, 0)

PlaceLoop(rows, w, c) == PlaceFrom(rows, w, 1, 1, c, 1)

\* the ground loop: the first ground row that passes the test of a
\* horizontal wire appends its FLAG line and then reads the column
\* "y_center", which the frame does not have: KeyError
GroundRaises(rows, w) ==
    \E r \in 1..Len(rows) : \E k \in 1..Len(w.wires) :
        /\ \E h \in 1..Len(w.wires_horizontal) : w.wires_horizontal[h] = w.wires[k]
        /\ HorizontalTest(w.wires[k], rows[r], GroundTolerance)

\* "FLAG <x> <y> 0\n", appended before the read of "y_center"
FlagEntry(x, y) == <<K_FLAG, SP, IntToTok(x), SP, IntToTok(y), SP, <<"0">>, NL>>

\* what the ground loop has appended to asc_lines when it ends: nothing when
\* no ground row passes a test, else the FLAG entry of the first row and
\* wire that pass, the y being wire.y_start + 16
GroundEntries(rows, w) ==
    IF ~GroundRaises(rows, w) THEN <<>>
    ELSE LET Passes(r, k) ==
                 /\ \E h \in 1..Len(w.wires_horizontal) :
                        w.wires_horizontal[h] = w.wires[k]
                 /\ HorizontalTest(w.wires[k], rows[r], GroundTolerance)
             r0 == CHOOSE r \in 1..Len(rows) :
                     /\ \E k \in 1..Len(w.wires) : Passes(r, k)
                     /\ \A q \in 1..(r - 1) : \A k \in 1..Len(w.wires) : ~Passes(q, k)
             k0 == CHOOSE k \in 1..Len(w.wires) :
                     Passes(r0, k) /\ \A q \in 1..(k - 1) : ~Passes(r0, q)
         IN <<FlagEntry(rows[r0].xcenter, w.wires[k0].y_start + 16)>>

\* "WIRE <x_start> <y_start> <x_end> <y_end>\n"
WireEntry(wire) ==
    <<K_WIRE, SP, IntToTok(wire.x_start), SP, IntToTok(wire.y_start), SP,
      IntToTok(wire.x_end), SP, IntToTok(wire.y_end), NL>>

\* the first two entries of asc_lines; neither ends with a newline
VersionEntry == <<K_Version, SP, <<"4">>>>

SheetEntry == <<K_SHEET, SP, <<"1">>, SP, <<"8", "8", "0">>, SP, <<"6", "8", "0">>>>

\* the "Remove duplicates" loop over asc_lines
RECURSIVE NoDuplicates(_, _, _)
NoDuplicates(asc_lines, k, no_duplicates) ==
    IF k > Len(asc_lines) THEN no_duplicates
    ELSE IF \E u \in 1..Len(no_duplicates) : no_duplicates[u] = asc_lines[k]
         THEN NoDuplicates(asc_lines, k + 1, no_duplicates)
         ELSE NoDuplicates(asc_lines, k + 1, Append(no_duplicates, asc_lines[k]))

RowsNamed(frame, name) == SelectSeq(frame, LAMBDA row : row.name = name)

\* the entries the placement loops append for the component classes
SymbolEntries(frame, w) ==
    PlaceLoop(RowsNamed(frame, "resistor"), w, ResistorLoop)
    \o PlaceLoop(RowsNamed(frame, "voltage-dc"), w, VoltageLoop)
    \o PlaceLoop(RowsNamed(frame, "voltage-dc_ac"), w, VoltageLoop)
    \o PlaceLoop(RowsNamed(frame, "capacitor-unpolarized"), w, CapacitorLoop)

InductorEntries(frame, w) == PlaceLoop(RowsNamed(frame, "inductor"), w, InductorLoop)

WireEntries(w) == [k \in 1..Len(w.wires) |-> WireEntry(w.wires[k])]

NoContent == [status |-> "none", text |-> <<>>, exc |-> NoExc, asc_lines |-> <<>>]

\* _generate_asc_content for the frames _process_image_to_asc cuts out of
\* the detections and the wires of _process_junctions; asc_lines is the
\* local list of that name as it is when the call returns or raises
_generate_asc_content(frame, w) ==
    LET gnd == RowsNamed(frame, "gnd")
        head == <<VersionEntry, SheetEntry>> \o SymbolEntries(frame, w)
        asc_lines == head \o InductorEntries(frame, w) \o WireEntries(w)
    IN IF GroundRaises(gnd, w)
       THEN [status |-> "raised", text |-> <<>>,
             exc |-> [type |-> "KeyError",
                      token |-> <<"y", "_", "c", "e", "n", "t", "e", "r">>],
             asc_lines |-> head \o GroundEntries(gnd, w)]
       ELSE [status |-> "returned",
             text |-> Flatten(NoDuplicates(asc_lines, 1, <<>>)),
             exc |-> NoExc,
             asc_lines |-> asc_lines]

(***************************************************************************)
(* Input texts                                                             *)
(***************************************************************************)
MaxLines == 3

MaxCalls == 2

T_0 == <<"0">>
T_1 == <<"1">>
T_4 == <<"4">>
T_100 == <<"1", "0", "0">>
T_880 == <<"8", "8", "0">>
T_680 == <<"6", "8", "0">>
T_x == <<"x">>
T_res == <<"r", "e", "s">>
T_cap == <<"c", "a", "p">>
T_R0 == <<"R", "0">>
T_R1 == <<"R", "1">>
T_Value == <<"V", "a", "l", "u", "e">>
K_WINDOW == <<"W", "I", "N", "D", "O", "W">>
K_WIRES == <<"W", "I", "R", "E", "S">>

\* a raw line: the tokens separated by single spaces, no newline
RawLine(tokens) ==
    [k \in 1..(2 * Len(tokens) - 1) |->
        IF k % 2 = 1 THEN tokens[(k + 1) \div 2] ELSE SP]

L_Version == RawLine(<<K_Version, T_4>>)
L_Sheet == RawLine(<<K_SHEET, T_1, T_880, T_680>>)
L_SymbolRes == RawLine(<<K_SYMBOL, T_res, T_100, T_100, T_R0>>)
L_SymbolCap == RawLine(<<K_SYMBOL, T_cap, T_100, T_100, T_R0>>)
L_NameR1 == RawLine(<<K_SYMATTR, K_InstName, T_R1>>)
L_Value == RawLine(<<K_SYMATTR, T_Value, T_100>>)
L_WireA == RawLine(<<K_WIRE, T_0, T_0, T_100, T_0>>)
L_WireARev == RawLine(<<K_WIRE, T_100, T_0, T_0, T_0>>)
L_WireB == RawLine(<<K_WIRE, T_0, T_0, T_0, T_100>>)
L_Flag == RawLine(<<K_FLAG, T_0, T_0, T_0>>)
L_Window == RawLine(<<K_WINDOW, T_0, T_0>>)
L_Wires == RawLine(<<K_WIRES, T_0, T_0, T_0, T_100>>)
L_ShortWire == RawLine(<<K_WIRE, T_0, T_0, T_100>>)
L_BadSheet == RawLine(<<K_SHEET, T_1, T_x, T_680>>)
L_BareAttr == RawLine(<<K_SYMATTR>>)

LineAlphabet ==
    {L_Version, L_SymbolRes, L_SymbolCap, L_NameR1, L_Value,
     L_WireA, L_WireARev, L_WireB, L_Flag, L_Window, L_Wires,
     L_ShortWire, L_BadSheet, L_BareAttr}

\* the text of a sequence of raw lines, each ended by a newline
TextOf(raws) == Flatten([k \in 1..Len(raws) |-> Append(raws[k], NL)])

\* Scenario A of the spec
ScenarioA == TextOf(<<L_Version, L_Sheet, L_SymbolRes, L_NameR1, L_WireA>>)

Texts ==
    {TextOf(raws) : raws \in UNION {[1..n -> LineAlphabet] : n \in 0..MaxLines}}
    \cup {ScenarioA}

\* no service method is running
NoServiceCall ==
    /\ service = "none"
    /\ pc = "idle"
    /\ scratch = "none"
    /\ outcome = "none"

\* no Wire has been constructed
NoWireCall ==
    /\ endpoints = <<0, 0, 0, 0>>
    /\ wire_obj = None
    /\ angle = 0
    /\ verdict = "none"

(***************************************************************************)
(* The parser as a state machine: a constructed ASCParser on a file, the   *)
(* calls of parse() on it, and the serializer applied to what it returned  *)
(***************************************************************************)
Init ==
    /\ file \in Texts
    /\ parser = NewParser
    /\ result = NoResult
    /\ calls = 0
    /\ out_text = None
    /\ result2 = NoResult
    /\ held = None
    /\ df = <<>>
    /\ stage = "upload"
    /\ junction_data = <<>>
    /\ wire_lists = NoWires
    /\ asc_content = NoContent
    /\ NoWireCall
    /\ NoServiceCall

\* parser.parse()
Parse ==
    /\ calls < MaxCalls
    /\ LET r == parse(parser, file) IN
       /\ parser' = r.parser
       /\ result' = r.result
    /\ calls' = calls + 1
    /\ held' = IF calls = 0 THEN FirstHeld(parse(parser, file).result)
               ELSE Aliased(held, LoopState(parser, file), calls)
    /\ out_text' = None
    /\ result2' = NoResult
    /\ UNCHANGED file
    /\ UNCHANGED ivars
    /\ UNCHANGED wvars
    /\ UNCHANGED svars

\* serialize(model) of the model the last parse() returned
SerializeResult ==
    /\ result.status = "returned"
    /\ out_text = None
    /\ out_text' = Some(Serialize(result.data[1]))
    /\ UNCHANGED <<file, parser, result, calls, result2, held>>
    /\ UNCHANGED ivars
    /\ UNCHANGED wvars
    /\ UNCHANGED svars

\* parse of the serialized text by a fresh ASCParser
Reparse ==
    /\ out_text # None
    /\ result2.status = "none"
    /\ result2' = ParseText(out_text[1])
    /\ UNCHANGED <<file, parser, result, calls, out_text, held>>
    /\ UNCHANGED ivars
    /\ UNCHANGED wvars
    /\ UNCHANGED svars

Next == Parse \/ SerializeResult \/ Reparse

Spec == Init /\ [][Next]_vars

(***************************************************************************)
(* process_image: the detections of one image, _process_junctions,         *)
(* _generate_asc_content and, for output_format "json", the conversion of  *)
(* the generated text by ASCParsingService.convert_to_json                 *)
(***************************************************************************)
MaxDetections == 5

Det(name, x, y) == [name |-> name, xcenter |-> x, ycenter |-> y]

\* the detections an image may hold, in the detector's order; the frame of
\* one image is a subsequence of at most MaxDetections of them
MasterDetections ==
    <<Det("junction", 16, 16), Det("junction", 30, 208), Det("junction", 208, 20),
      Det("junction", 40, 30), Det("junction", 208, 208),
      Det("junction", 400, 76), Det("junction", 100, 100),
      Det("junction", 130, 100), Det("junction", 170, 140),
      Det("resistor", 20, 100), Det("resistor", 40, 40),
      Det("voltage-dc", 20, 100), Det("voltage-dc_ac", 100, 20),
      Det("capacitor-unpolarized", 100, 20), Det("inductor", 40, 40),
      Det("gnd", 100, 100), Det("diode", 20, 100), Det("resistor", 150, 150),
      Det("resistor", 200, 80)>>

Frames ==
    {[k \in 1..Cardinality(S) |-> MasterDetections[Kth(S, k)]] :
        S \in {T \in SUBSET (1..Len(MasterDetections)) : Cardinality(T) <= MaxDetections}}

InitImage ==
    /\ df \in Frames
    /\ stage = "detected"
    /\ junction_data = RowsNamed(df, "junction")
    /\ wire_lists = NoWires
    /\ asc_content = NoContent
    /\ NoWireCall
    /\ NoServiceCall
    /\ file = <<>>
    /\ parser = NewParser
    /\ result = NoResult
    /\ calls = 0
    /\ out_text = None
    /\ result2 = NoResult
    /\ held = None

\* wires, wires_horizontal, wires_vertical = self._process_junctions(data)
ProcessJunctions ==
    /\ stage = "detected"
    /\ junction_data' = _process_junctions(junction_data).data
    /\ wire_lists' = _process_junctions(junction_data).wires
    /\ stage' = "junctions"
    /\ UNCHANGED <<df, asc_content>>
    /\ UNCHANGED pvars
    /\ UNCHANGED wvars
    /\ UNCHANGED svars

\* asc_content = self._generate_asc_content(...)
GenerateAscContent ==
    /\ stage = "junctions"
    /\ asc_content' = _generate_asc_content(df, wire_lists)
    /\ stage' = "generated"
    /\ UNCHANGED <<df, junction_data, wire_lists>>
    /\ UNCHANGED pvars
    /\ UNCHANGED wvars
    /\ UNCHANGED svars

\* ASCParsingService.convert_to_json(asc_content.encode()): the text goes
\* to a scratch file and a fresh ASCParser parses it
ConvertToJson ==
    /\ stage = "generated"
    /\ asc_content.status = "returned"
    /\ file' = asc_content.text
    /\ LET r == parse(NewParser, asc_content.text) IN
       /\ parser' = r.parser
       /\ result' = r.result
       /\ held' = FirstHeld(r.result)
    /\ calls' = 1
    /\ stage' = "converted"
    /\ UNCHANGED <<out_text, result2>>
    /\ UNCHANGED <<df, junction_data, wire_lists, asc_content>>
    /\ UNCHANGED wvars
    /\ UNCHANGED svars

NextImage == ProcessJunctions \/ GenerateAscContent \/ ConvertToJson

SpecImage == InitImage /\ [][NextImage]_vars

(***************************************************************************)
(* Wire called on its own: one construction from four coordinates, and     *)
(* the comparisons of test_if_wire_is_valid applied to one slope angle.    *)
(* Integer coordinates give no slope of exactly 10, 170, 190 or 350        *)
(* degrees; float coordinates do (for x1 = 0, y1 = 17.364817766693026,     *)
(* x2 = 98.4807753012208, y2 = 0 the expression of line 39 is 170.0), so   *)
(* the angle is drawn from the whole degrees around every limit.           *)
(***************************************************************************)
MaxCoord == 1

Coords == (0..MaxCoord) \cup {GridUnit * k : k \in 1..MaxCoord}

Limits == {0, 10, 80, 90, 100, 170, 180, 190, 260, 270, 280, 350}

Angles == {(b + d + 360) % 360 : b \in Limits, d \in {-1, 0, 1}}

InitWire ==
    /\ endpoints \in Coords \X Coords \X Coords \X Coords
    /\ wire_obj = None
    /\ angle = 0
    /\ verdict = "none"
    /\ file = <<>>
    /\ parser = NewParser
    /\ result = NoResult
    /\ calls = 0
    /\ out_text = None
    /\ result2 = NoResult
    /\ held = None
    /\ df = <<>>
    /\ stage = "wire"
    /\ junction_data = <<>>
    /\ wire_lists = NoWires
    /\ asc_content = NoContent
    /\ NoServiceCall

\* wire = Wire(x1, y1, x2, y2)
WireInit ==
    /\ wire_obj = None
    /\ wire_obj' = Some(Wire(endpoints[1], endpoints[2], endpoints[3], endpoints[4]))
    /\ UNCHANGED <<endpoints, angle, verdict>>
    /\ UNCHANGED <<pvars, ivars, svars>>

\* lines 40-45 of test_if_wire_is_valid for one value of slope_as_angle
TestSlope ==
    /\ verdict = "none"
    /\ \E a \in Angles :
          /\ angle' = a
          /\ verdict' = Orientation(a)
    /\ UNCHANGED <<endpoints, wire_obj>>
    /\ UNCHANGED <<pvars, ivars, svars>>

NextWire == WireInit \/ TestSlope

SpecWire == InitWire /\ [][NextWire]_vars

(***************************************************************************)
(* The service methods that put their input bytes into a scratch file:     *)
(* ASCParsingService.parse_asc_file, ASCParsingService.convert_to_json     *)
(* and CircuitRecognitionService.process_image (output_format "asc").      *)
(* The positions of one call: "start", "created" (NamedTemporaryFile has   *)
(* made the file, delete=False), "written" (the with block is left, the    *)
(* try block begins), "finally", "exited".  temp_file.write can fail (no   *)
(* space left on the device, a file_content that is not bytes).            *)
(***************************************************************************)
MaxScratchLines == 1

MaxScratchDetections == 3

ParsingServices == {"parse_asc_file", "convert_to_json"}

ScratchTexts ==
    {TextOf(raws) : raws \in UNION {[1..n -> LineAlphabet] : n \in 0..MaxScratchLines}}
    \cup {ScenarioA}

ScratchFrames ==
    {[k \in 1..Cardinality(S) |-> MasterDetections[Kth(S, k)]] :
        S \in {T \in SUBSET (1..Len(MasterDetections)) :
                  Cardinality(T) <= MaxScratchDetections}}

InitService ==
    /\ service \in ParsingServices \cup {"process_image"}
    /\ pc = "start"
    /\ scratch = "none"
    /\ outcome = "none"
    /\ IF service \in ParsingServices
       THEN file \in ScratchTexts /\ df = <<>>
       ELSE file = <<>> /\ df \in ScratchFrames
    /\ parser = NewParser
    /\ result = NoResult
    /\ calls = 0
    /\ out_text = None
    /\ result2 = NoResult
    /\ held = None
    /\ stage = "service"
    /\ junction_data = RowsNamed(df, "junction")
    /\ wire_lists = NoWires
    /\ asc_content = NoContent
    /\ NoWireCall

\* with tempfile.NamedTemporaryFile(mode="wb", suffix=..., delete=False) as temp_file:
CreateScratch ==
    /\ pc = "start"
    /\ scratch' = "exists"
    /\ pc' = "created"
    /\ UNCHANGED <<service, outcome>>
    /\ UNCHANGED <<pvars, ivars, wvars>>

\* temp_file.write(file_content); temp_file_path = temp_file.name
WriteScratch ==
    /\ pc = "created"
    /\ pc' = "written"
    /\ UNCHANGED <<service, scratch, outcome>>
    /\ UNCHANGED <<pvars, ivars, wvars>>

\* temp_file.write(file_content) raises: the with block closes the file and
\* the exception leaves the method; the try statement has not been entered
WriteScratchFails ==
    /\ pc = "created"
    /\ pc' = "exited"
    /\ outcome' = "raised"
    /\ UNCHANGED <<service, scratch>>
    /\ UNCHANGED <<pvars, ivars, wvars>>

\* the try block of parse_asc_file and of convert_to_json: a fresh
\* ASCParser on the scratch file, one parse()
ParseScratch ==
    /\ pc = "written"
    /\ service \in ParsingServices
    /\ LET r == parse(NewParser, file) IN
       /\ parser' = r.parser
       /\ result' = r.result
       /\ held' = FirstHeld(r.result)
       /\ outcome' = r.result.status
    /\ calls' = 1
    /\ pc' = "finally"
    /\ UNCHANGED <<file, out_text, result2>>
    /\ UNCHANGED <<service, scratch>>
    /\ UNCHANGED <<ivars, wvars>>

\* the try block of process_image: _process_image_to_asc on the detections
\* of the image in the scratch file
RecognizeScratch ==
    /\ pc = "written"
    /\ service = "process_image"
    /\ LET j == _process_junctions(junction_data)
           c == _generate_asc_content(df, j.wires)
       IN /\ junction_data' = j.data
          /\ wire_lists' = j.wires
          /\ asc_content' = c
          /\ outcome' = c.status
    /\ pc' = "finally"
    /\ UNCHANGED <<df, stage>>
    /\ UNCHANGED <<service, scratch>>
    /\ UNCHANGED <<pvars, wvars>>

\* finally: if os.path.exists(temp_file_path): os.unlink(temp_file_path)
CleanUp ==
    /\ pc = "finally"
    /\ scratch' = IF scratch = "exists" THEN "deleted" ELSE scratch
    /\ pc' = "exited"
    /\ UNCHANGED <<service, outcome>>
    /\ UNCHANGED <<pvars, ivars, wvars>>

NextService ==
    \/ CreateScratch
    \/ WriteScratch
    \/ WriteScratchFails
    \/ ParseScratch
    \/ RecognizeScratch
    \/ CleanUp

SpecService == InitService /\ [][NextService]_vars

(***************************************************************************)
(* Vocabulary of the properties                                            *)
(***************************************************************************)
Keywords == {K_Version, K_SHEET, K_SYMBOL, K_SYMATTR, K_WIRE, K_FLAG}

\* tokens a keyword line needs, the keyword included
RequiredTokens(kw) ==
    CASE kw = K_Version -> 2
      [] kw = K_SHEET -> 4
      [] kw = K_SYMBOL -> 5
      [] kw = K_SYMATTR -> 2
      [] kw = K_WIRE -> 5
      [] kw = K_FLAG -> 4

\* positions of the tokens that must be integers
NumericPositions(kw) ==
    CASE kw = K_SHEET -> {2, 3, 4}
      [] kw = K_SYMBOL -> {3, 4}
      [] kw = K_WIRE -> {2, 3, 4, 5}
      [] kw = K_FLAG -> {2, 3}
      [] OTHER -> {}

Recognized(parts) == Len(parts) > 0 /\ parts[1] \in Keywords

Unrecognized(parts) == Len(parts) > 0 /\ parts[1] \notin Keywords

MalformedLine(parts) ==
    /\ Recognized(parts)
    /\ \/ Len(parts) < RequiredTokens(parts[1])
       \/ \E k \in NumericPositions(parts[1]) : ~IsInt(parts[k])

FileRaws == ReadLines(file)

FileParts == [k \in 1..Len(FileRaws) |-> Split(FileRaws[k])]

HasMalformedLine == \E k \in 1..Len(FileParts) : MalformedLine(FileParts[k])

WellFormedFile == ~HasMalformedLine

\* the file without its k-th line
FileWithout(k) ==
    TextOf(SubSeq(FileRaws, 1, k - 1) \o SubSeq(FileRaws, k + 1, Len(FileRaws)))

\* the file with one more raw line after its k-th line (k = 0: in front)
FileWith(k, raw) ==
    TextOf(SubSeq(FileRaws, 1, k) \o <<raw>> \o SubSeq(FileRaws, k + 1, Len(FileRaws)))

\* two calls end the same way: both return equal models, or both raise the
\* same exception
SameOutcome(r1, r2) ==
    r1.status = r2.status /\ r1.data = r2.data /\ r1.exc = r2.exc

FirstParseReturned == calls = 1 /\ result.status = "returned"

Model == result.data[1]

\* the lists parse() holds when its loop over the lines ends, before the
\* duplicates are removed
RawLists == ParseLoop(NewParser, FileParts, 1).st

SameComponent(a, b) ==
    /\ a.type = b.type /\ a.x = b.x /\ a.y = b.y /\ a.rotation = b.rotation
    /\ (IF DictHas(a.attributes, K_name) THEN DictGet(a.attributes, K_name, <<>>) ELSE <<>>)
       = (IF DictHas(b.attributes, K_name) THEN DictGet(b.attributes, K_name, <<>>) ELSE <<>>)

SameSegment(a, b) ==
    {<<a.x1, a.y1>>, <<a.x2, a.y2>>} = {<<b.x1, b.y1>>, <<b.x2, b.y2>>}

\* positions of a list whose element has no equal at an earlier position
FirstSeen(list, Same(_, _)) ==
    {i \in 1..Len(list) : \A j \in 1..(i - 1) : ~Same(list[j], list[i])}

\* out is list restricted to its first-seen positions, in the list's order
IsFirstSeenSublist(out, list, Same(_, _)) ==
    /\ Len(out) = Cardinality(FirstSeen(list, Same))
    /\ \A k \in 1..Len(out) : out[k] = list[Kth(FirstSeen(list, Same), k)]

(***************************************************************************)
(* C1  Scenario A: the text Version 4 / SHEET 1 880 680 / SYMBOL res 100   *)
(* 100 R0 / SYMATTR InstName R1 / WIRE 0 0 100 0 parses to version "4",    *)
(* sheet (1, 880, 680), exactly one component (res, 100, 100, R0, name     *)
(* R1), exactly one wire (0, 0, 100, 0) and no flags.                      *)
(***************************************************************************)
C1_ScenarioA ==
    (file = ScenarioA /\ calls = 1) =>
        /\ result.status = "returned"
        /\ Model.version = Some(T_4)
        /\ Model.sheet = Some([number |-> 1, width |-> 880, height |-> 680])
        /\ Len(Model.components) = 1
        /\ Model.components[1].type = T_res
        /\ Model.components[1].x = 100
        /\ Model.components[1].y = 100
        /\ Model.components[1].rotation = T_R0
        /\ Model.components[1].attributes = <<<<K_name, <<T_R1>>>>>>
        /\ Model.wires = <<[x1 |-> 0, y1 |-> 0, x2 |-> 100, y2 |-> 0]>>
        /\ Model.flags = <<>>

C1_Witness == file = ScenarioA /\ calls = 1 /\ result.status = "returned"

(***************************************************************************)
(* C2  Round trip.  As claimed: for every well-formed text,                *)
(* parse(serialize(parse(text))) equals parse(text).                       *)
(***************************************************************************)
C2_RoundTrip_Claimed ==
    (calls = 1 /\ WellFormedFile /\ result2.status # "none") => result2 = result

\* the serializer suppressed no line of the model
NothingSuppressed(m) ==
    SuppressRepeats(EmittedLines(m), 1, <<>>) = EmittedLines(m)

\* every wire of the model lists the endpoint nearer the origin first
WiresNearestFirst(m) ==
    \A k \in 1..Len(m.wires) :
        m.wires[k].x1 * m.wires[k].x1 + m.wires[k].y1 * m.wires[k].y1
            <= m.wires[k].x2 * m.wires[k].x2 + m.wires[k].y2 * m.wires[k].y2

\* parse removed no duplicate component: the ids are 1, 2, ... in order
IdsConsecutive(m) == \A k \in 1..Len(m.components) : m.components[k].id = k

(***************************************************************************)
(* C2 amended: for every well-formed text whose parse removed no duplicate *)
(* component, whose parsed wires list the endpoint nearer the origin       *)
(* first and whose serialization suppresses no repeated line,              *)
(* parse(serialize(parse(text))) equals parse(text).                       *)
(***************************************************************************)
C2_RoundTrip ==
    (/\ calls = 1 /\ WellFormedFile /\ result2.status # "none"
     /\ NothingSuppressed(Model) /\ WiresNearestFirst(Model) /\ IdsConsecutive(Model))
    => result2 = result

C2_Witness ==
    /\ calls = 1 /\ WellFormedFile /\ result2.status = "returned"
    /\ NothingSuppressed(Model) /\ WiresNearestFirst(Model) /\ IdsConsecutive(Model)
    /\ Len(Model.components) >= 1
    /\ Len(Model.components[1].attributes) >= 1
    /\ Len(Model.wires) >= 1

\* the set of the elements of a sequence
Range(seq) == {seq[k] : k \in 1..Len(seq)}

(***************************************************************************)
(* C3  The two paths converge: parsing the text _generate_asc_content      *)
(* returned gives version "4", sheet (1, 880, 680), one component for      *)
(* every distinct SYMBOL/SYMATTR entry placement emitted and one wire for  *)
(* every distinct WIRE line it emitted.                                    *)
(***************************************************************************)
C3_PathsConverge ==
    stage = "converted" =>
        /\ result.status = "returned"
        /\ Model.version = Some(T_4)
        /\ Model.sheet = Some([number |-> 1, width |-> 880, height |-> 680])
        /\ Len(Model.components) =
              Cardinality(Range(SymbolEntries(df, wire_lists))
                          \cup Range(InductorEntries(df, wire_lists)))
        /\ Len(Model.wires) = Cardinality(Range(WireEntries(wire_lists)))

(***************************************************************************)
(* C4  After parse no two components of the result share (type, x, y,      *)
(* rotation, name attribute or empty); of each group of duplicates exactly *)
(* the first-seen component is kept, and the kept components appear in     *)
(* their original relative order.                                          *)
(***************************************************************************)
C4_ComponentsDeduplicated ==
    /\ result.status = "returned" =>
          \A a, b \in 1..Len(Model.components) :
              a # b => ~SameComponent(Model.components[a], Model.components[b])
    /\ FirstParseReturned =>
          IsFirstSeenSublist(Model.components, RawLists.components, SameComponent)

C4_Witness ==
    /\ FirstParseReturned
    /\ Len(Model.components) >= 2
    /\ Len(RawLists.components) > Len(Model.components)

(***************************************************************************)
(* C5  After parse no two wires of the result are the same undirected      *)
(* segment: (a,b,c,d) and (c,d,a,b) collapse to one, the first-seen wire   *)
(* is kept with its endpoints in file order, and the kept wires appear in  *)
(* their original relative order.                                          *)
(***************************************************************************)
C5_WiresDeduplicated ==
    /\ result.status = "returned" =>
          \A a, b \in 1..Len(Model.wires) :
              a # b => ~SameSegment(Model.wires[a], Model.wires[b])
    /\ FirstParseReturned =>
          IsFirstSeenSublist(Model.wires, RawLists.wires, SameSegment)

C5_Witness ==
    /\ FirstParseReturned
    /\ Len(Model.wires) >= 2
    /\ \E i, j \in 1..Len(RawLists.wires) :
          /\ i < j
          /\ RawLists.wires[i] # RawLists.wires[j]
          /\ SameSegment(RawLists.wires[i], RawLists.wires[j])
          /\ Model.wires[1] = RawLists.wires[i]
          /\ Model.wires[1].x1 = 100

(***************************************************************************)
(* C6  Structural dedup is idempotent: removing duplicate components and   *)
(* duplicate wires from the lists parse() produced by removing duplicates  *)
(* leaves both lists unchanged.                                            *)
(***************************************************************************)
C6_DedupIdempotent ==
    result.status = "returned" =>
        /\ _remove_duplicate_components(Model.components) = Model.components
        /\ _remove_duplicate_wires(Model.wires) = Model.wires

C6_Witness ==
    /\ FirstParseReturned
    /\ Len(RawLists.wires) = 3
    /\ Len(Model.wires) = 1

(***************************************************************************)
(* C7  A recognized keyword line with fewer tokens than its keyword needs, *)
(* or with a non-integer where a number is needed, makes parse fail with a *)
(* MalformedLineError that names the line number and the raw line.         *)
(***************************************************************************)
C7_MalformedLineError ==
    (calls = 1 /\ HasMalformedLine) =>
        /\ result.status = "raised"
        /\ result.exc.type = "MalformedLineError"
        /\ {"lineno", "content"} \subseteq DOMAIN result.exc

(***************************************************************************)
(* C8  A malformed recognized line at any position aborts the whole parse: *)
(* parse returns no model, whatever lines surround it.                     *)
(***************************************************************************)
C8_MalformedAborts ==
    (calls = 1 /\ HasMalformedLine) =>
        (result.status = "raised" /\ result.data = None)

(***************************************************************************)
(* C9  A line whose first token is not exactly one of the six keywords is  *)
(* ignored: it never changes how parse ends, and removing the line from    *)
(* the text does not change the parse result.                              *)
(***************************************************************************)
C9_UnrecognizedIgnored ==
    calls = 1 =>
        \A k \in 1..Len(FileParts) :
            Unrecognized(FileParts[k]) =>
                SameOutcome(ParseText(FileWithout(k)), result)

(***************************************************************************)
(* C10  Blank lines are ignored: inserting a blank or whitespace-only line *)
(* at any position of the text, also between a SYMBOL line and its SYMATTR *)
(* lines, does not change the parse result.                                *)
(***************************************************************************)
C10_BlankIgnored ==
    calls = 1 =>
        \A k \in 0..Len(FileRaws) : \A blank \in {<<>>, <<SP>>, <<SP, SP>>} :
            SameOutcome(ParseText(FileWith(k, blank)), result)

(***************************************************************************)
(* The entries of asc_lines, read back                                     *)
(***************************************************************************)
AscLines == asc_content.asc_lines

Generated == stage \in {"generated", "converted"}

IsSymbolEntry(e) == e[1] = K_SYMBOL

IsWireEntry(e) == e[1] = K_WIRE

IsFlagEntry(e) == e[1] = K_FLAG

SymbolEntriesOf(lines) == SelectSeq(lines, IsSymbolEntry)

\* the fields of "SYMBOL <type> <x> <y> <rotation>\nSYMATTR InstName <name>\n"
EntryType(e) == e[3]

EntryX(e) == ToInt(e[5])

EntryY(e) == ToInt(e[7])

EntryRotation(e) == e[9]

EntryName(e) == e[15]

(***************************************************************************)
(* C11  Grid snapping: after _process_junctions every x and y of every     *)
(* junction is a multiple of 16, and so is every x and y of every SYMBOL   *)
(* entry that placement emitted.                                           *)
(***************************************************************************)
OnGrid(n) == n % 16 = 0

C11_GridSnapping ==
    /\ stage # "detected" =>
          \A k \in 1..Len(junction_data) :
              OnGrid(junction_data[k].xcenter) /\ OnGrid(junction_data[k].ycenter)
    /\ \A k \in 1..Len(AscLines) :
          IsSymbolEntry(AscLines[k]) =>
              OnGrid(EntryX(AscLines[k])) /\ OnGrid(EntryY(AscLines[k]))

(***************************************************************************)
(* C12  Wire normalization: the start point of Wire(x1, y1, x2, y2) is an  *)
(* endpoint at most as far from the origin as the other one, and when both *)
(* are equally far the input order is kept: start = (x1, y1),              *)
(* end = (x2, y2).                                                         *)
(***************************************************************************)
SquaredDistance(x, y) == x * x + y * y

C12_WireNormalization ==
    wire_obj # None =>
        LET w == wire_obj[1]
            p1 == <<endpoints[1], endpoints[2]>>
            p2 == <<endpoints[3], endpoints[4]>>
            d1 == SquaredDistance(p1[1], p1[2])
            d2 == SquaredDistance(p2[1], p2[2])
        IN /\ {<<w.x_start, w.y_start>>, <<w.x_end, w.y_end>>} = {p1, p2}
           /\ SquaredDistance(w.x_start, w.y_start) <= SquaredDistance(w.x_end, w.y_end)
           /\ d1 = d2 => <<w.x_start, w.y_start>> = p1 /\ <<w.x_end, w.y_end>> = p2

(***************************************************************************)
(* C13  Orientation classification has an exclusive 10-degree threshold on *)
(* every side: an angle less than 10 degrees from 0, 180 or 360 is         *)
(* horizontal, less than 10 degrees from 90 or 270 vertical, and every     *)
(* other angle, 10, 170, 190 and 350 among them, is "other".               *)
(***************************************************************************)
AwayFrom(a, axis) == Abs(a - axis)

C13_ExclusiveThreshold ==
    verdict # "none" =>
        LET near_horizontal == \E axis \in {0, 180, 360} : AwayFrom(angle, axis) < 10
            near_vertical == \E axis \in {90, 270} : AwayFrom(angle, axis) < 10
        IN verdict = (IF near_horizontal THEN "h"
                      ELSE IF near_vertical THEN "v" ELSE "o")

(***************************************************************************)
(* C14  Every wire _process_junctions returned, and every WIRE entry       *)
(* emitted for it, is axis-aligned: a horizontal wire has y_end = y_start, *)
(* a vertical wire x_end = x_start.                                        *)
(***************************************************************************)
AxisAligned(w) ==
    /\ w.orientation = "h" => w.y_end = w.y_start
    /\ w.orientation = "v" => w.x_end = w.x_start

C14_AxisAligned ==
    /\ \A k \in 1..Len(wire_lists.wires) : AxisAligned(wire_lists.wires[k])
    /\ \A k \in 1..Len(AscLines) :
          IsWireEntry(AscLines[k]) =>
              AscLines[k][3] = AscLines[k][7] \/ AscLines[k][5] = AscLines[k][9]

(***************************************************************************)
(* C15  First matching wire wins: a detection attaches to one wire only,   *)
(* so the symbols emitted for a class are at most as many as the           *)
(* detections of that class.                                               *)
(***************************************************************************)
EntriesOfType(type) ==
    SelectSeq(AscLines, LAMBDA e : IsSymbolEntry(e) /\ EntryType(e) = type)

C15_FirstWireWins ==
    Generated =>
        /\ Len(EntriesOfType(T_res)) <= Len(RowsNamed(df, "resistor"))
        /\ Len(EntriesOfType(T_cap)) <= Len(RowsNamed(df, "capacitor-unpolarized"))
        /\ Len(EntriesOfType(T_ind)) <= Len(RowsNamed(df, "inductor"))
        /\ Len(EntriesOfType(T_voltage)) <=
              Len(RowsNamed(df, "voltage-dc")) + Len(RowsNamed(df, "voltage-dc_ac"))

(***************************************************************************)
(* The placement loops, class by class                                     *)
(***************************************************************************)
PlacedClasses ==
    {"resistor", "voltage-dc", "voltage-dc_ac", "capacitor-unpolarized", "inductor"}

VoltageClasses == {"voltage-dc", "voltage-dc_ac"}

LoopOf(class) ==
    CASE class = "resistor" -> ResistorLoop
      [] class \in VoltageClasses -> VoltageLoop
      [] class = "capacitor-unpolarized" -> CapacitorLoop
      [] class = "inductor" -> InductorLoop

\* the entries the loop of one detection class appends
PlacedFor(class) == PlaceLoop(RowsNamed(df, class), wire_lists, LoopOf(class))

\* the number in the instance name of an entry: "R12" is 12
InstanceNumber(e) == ToInt(Tail(EntryName(e)))

(***************************************************************************)
(* C16  Every component type has its own instance counter: the symbols     *)
(* placed for one type are numbered 1, 2, ..., k in placement order, with  *)
(* no gap and no repeat, however many symbols of other types are placed.   *)
(***************************************************************************)
C16_InstanceCounters ==
    Generated =>
        /\ SymbolEntriesOf(AscLines) =
              PlacedFor("resistor") \o PlacedFor("voltage-dc")
              \o PlacedFor("voltage-dc_ac") \o PlacedFor("capacitor-unpolarized")
              \o (IF asc_content.status = "returned" THEN PlacedFor("inductor") ELSE <<>>)
        /\ \A class \in PlacedClasses :
              \A n \in 1..Len(PlacedFor(class)) :
                  InstanceNumber(PlacedFor(class)[n]) = n

C16_Witness ==
    /\ Generated
    /\ asc_content.status = "returned"
    /\ Len(PlacedFor("resistor")) >= 2
    /\ \E class \in PlacedClasses \ {"resistor"} : Len(PlacedFor(class)) >= 1

(***************************************************************************)
(* C17  Placement result: a resistor, inductor or capacitor on a vertical  *)
(* wire gets x = wire.x_start - 16, the detection's y and R0, on a         *)
(* horizontal wire y = wire.y_start - 16, the detection's x and R90; a     *)
(* voltage source gets x = wire.x_start, y = detection y - 96 and R0 on a  *)
(* vertical wire, x = detection x - 96, y = wire.y_start and R270 on a     *)
(* horizontal one.  A resistor at (108, 50) with a vertical wire from y 0  *)
(* to 200 at x 112 is placed at x 96 with R0.                              *)
(***************************************************************************)
SymbolName(class) ==
    CASE class = "resistor" -> T_res
      [] class \in VoltageClasses -> T_voltage
      [] class = "capacitor-unpolarized" -> T_cap
      [] class = "inductor" -> T_ind

\* the tolerance of the containment test across a wire of orientation o
Tolerance(class, o) ==
    CASE class \in {"resistor", "inductor"} -> 35
      [] class \in VoltageClasses -> 25
      [] class = "capacitor-unpolarized" -> (IF o = "v" THEN 50 ELSE 25)

InList(wire, list) == \E k \in 1..Len(list) : list[k] = wire

\* the detection passes the containment test of the wire, found in the
\* list of orientation o
Attaches(class, row, wire, o) ==
    IF o = "v"
    THEN InList(wire, wire_lists.wires_vertical)
         /\ VerticalTest(wire, row, Tolerance(class, "v"))
    ELSE ~InList(wire, wire_lists.wires_vertical)
         /\ InList(wire, wire_lists.wires_horizontal)
         /\ HorizontalTest(wire, row, Tolerance(class, "h"))

ExpectedPlacement(class, row, wire, o) ==
    IF class \in VoltageClasses
    THEN (IF o = "v"
          THEN [type |-> T_voltage, x |-> wire.x_start, y |-> row.ycenter - 96,
                rotation |-> T_R0]
          ELSE [type |-> T_voltage, x |-> row.xcenter - 96, y |-> wire.y_start,
                rotation |-> T_R270])
    ELSE (IF o = "v"
          THEN [type |-> SymbolName(class), x |-> wire.x_start - 16,
                y |-> row.ycenter, rotation |-> T_R0]
          ELSE [type |-> SymbolName(class), x |-> row.xcenter,
                y |-> wire.y_start - 16, rotation |-> T_R90])

PlacementOf(e) ==
    [type |-> EntryType(e), x |-> EntryX(e), y |-> EntryY(e),
     rotation |-> EntryRotation(e)]

\* the loop of a class has run when the call ended: the ground loop raises
\* before the inductor loop
LoopHasRun(class) == class = "inductor" => asc_content.status = "returned"

ScenarioC_Wire == Wire(112, 0, 112, 200)

ScenarioC_Placed ==
    PlaceLoop(<<Det("resistor", 108, 50)>>,
              [wires |-> <<ScenarioC_Wire>>, wires_horizontal |-> <<>>,
               wires_vertical |-> <<ScenarioC_Wire>>],
              ResistorLoop)

C17_PlacementResult ==
    /\ ScenarioC_Wire.orientation = "v"
    /\ Len(ScenarioC_Placed) = 1
    /\ PlacementOf(ScenarioC_Placed[1]) =
          [type |-> T_res, x |-> 96, y |-> 50, rotation |-> T_R0]
    /\ Generated =>
          /\ \A class \in PlacedClasses :
                \A r \in 1..Len(RowsNamed(df, class)) :
                    \A k \in 1..Len(wire_lists.wires) : \A o \in {"v", "h"} :
                        Attaches(class, RowsNamed(df, class)[r], wire_lists.wires[k], o)
                        /\ LoopHasRun(class)
                        => \E n \in 1..Len(AscLines) :
                              /\ IsSymbolEntry(AscLines[n])
                              /\ PlacementOf(AscLines[n]) =
                                    ExpectedPlacement(class, RowsNamed(df, class)[r],
                                                      wire_lists.wires[k], o)
          /\ \A n \in 1..Len(AscLines) :
                IsSymbolEntry(AscLines[n]) =>
                    \E class \in PlacedClasses :
                        \E r \in 1..Len(RowsNamed(df, class)) :
                            \E k \in 1..Len(wire_lists.wires) : \E o \in {"v", "h"} :
                                /\ Attaches(class, RowsNamed(df, class)[r],
                                            wire_lists.wires[k], o)
                                /\ PlacementOf(AscLines[n]) =
                                      ExpectedPlacement(class, RowsNamed(df, class)[r],
                                                        wire_lists.wires[k], o)

C17_Witness ==
    /\ Generated
    /\ \E n \in 1..Len(AscLines) :
          /\ IsSymbolEntry(AscLines[n])
          /\ EntryType(AscLines[n]) = T_res
          /\ EntryRotation(AscLines[n]) = T_R0
    /\ \E n \in 1..Len(AscLines) :
          /\ IsSymbolEntry(AscLines[n])
          /\ EntryType(AscLines[n]) = T_voltage
          /\ EntryRotation(AscLines[n]) = T_R270

(***************************************************************************)
(* C18  A ground detection inside a horizontal wire's x range and within   *)
(* 200 units of its y is placed: the call returns, and asc_lines holds a   *)
(* FLAG entry with net name "0" at the detection's x and a WIRE entry for  *)
(* a vertical connector that ends at the flag point.                       *)
(***************************************************************************)
GroundAttaches(row, wire) ==
    InList(wire, wire_lists.wires_horizontal) /\ HorizontalTest(wire, row, 200)

C18_GroundPlaced ==
    Generated =>
        \A r \in 1..Len(RowsNamed(df, "gnd")) : \A k \in 1..Len(wire_lists.wires) :
            GroundAttaches(RowsNamed(df, "gnd")[r], wire_lists.wires[k]) =>
                /\ asc_content.status = "returned"
                /\ \E n, m \in 1..Len(AscLines) :
                      /\ IsFlagEntry(AscLines[n])
                      /\ AscLines[n][3] = IntToTok(RowsNamed(df, "gnd")[r].xcenter)
                      /\ AscLines[n][7] = <<"0">>
                      /\ IsWireEntry(AscLines[m])
                      /\ AscLines[m][3] = AscLines[m][7]
                      /\ AscLines[m][7] = AscLines[n][3]
                      /\ AscLines[m][9] = AscLines[n][5]

(***************************************************************************)
(* C19  Silent drop: a detection of an unrecognized class, or one that     *)
(* passes the containment test of no wire, adds no entry and raises no     *)
(* error; the call ends as it does for the detections without it.          *)
(***************************************************************************)
RecognizedClasses == PlacedClasses \cup {"gnd", "junction"}

PassesSomeWire(row) ==
    \E k \in 1..Len(wire_lists.wires) :
        IF row.name = "gnd" THEN GroundAttaches(row, wire_lists.wires[k])
        ELSE \E o \in {"v", "h"} : Attaches(row.name, row, wire_lists.wires[k], o)

Dropped(row) ==
    \/ row.name \notin RecognizedClasses
    \/ row.name \in PlacedClasses \cup {"gnd"} /\ ~PassesSomeWire(row)

FrameWithoutRow(k) == SubSeq(df, 1, k - 1) \o SubSeq(df, k + 1, Len(df))

C19_SilentDrop ==
    Generated =>
        /\ \A k \in 1..Len(df) :
              Dropped(df[k]) =>
                  /\ _process_junctions(RowsNamed(FrameWithoutRow(k), "junction")).wires
                        = wire_lists
                  /\ _generate_asc_content(FrameWithoutRow(k), wire_lists) = asc_content
        /\ asc_content.status = "raised" =>
              \E k \in 1..Len(df) : df[k].name = "gnd" /\ ~Dropped(df[k])
        /\ (\A k \in 1..Len(df) : df[k].name = "junction" \/ Dropped(df[k])) =>
              \A n \in 1..Len(AscLines) :
                  ~IsSymbolEntry(AscLines[n]) /\ ~IsFlagEntry(AscLines[n])

C19_Witness ==
    /\ Generated
    /\ asc_content.status = "returned"
    /\ \E k \in 1..Len(df) : df[k].name \notin RecognizedClasses
    /\ \E k \in 1..Len(df) : df[k].name \in PlacedClasses /\ ~PassesSomeWire(df[k])
    /\ \E n \in 1..Len(AscLines) : IsSymbolEntry(AscLines[n])

(***************************************************************************)
(* C20  The text _generate_asc_content returns holds no two identical      *)
(* lines: it is de-duplicated line by line, first occurrence kept.         *)
(***************************************************************************)
C20_NoIdenticalLines ==
    asc_content.status = "returned" =>
        LET ls == ReadLines(asc_content.text)
        IN \A i, j \in 1..Len(ls) : i # j => ls[i] # ls[j]

(***************************************************************************)
(* C21  The scratch file of parse_asc_file, convert_to_json and            *)
(* process_image is deleted on every exit path: when the call has          *)
(* returned or raised, also after a failed write of the input bytes or a   *)
(* failed parse or recognition, the file it created no longer exists.      *)
(***************************************************************************)
C21_ScratchDeleted == pc = "exited" => scratch # "exists"

(***************************************************************************)
(* C22  Parse calls are independent and idempotent: a second parse() on    *)
(* the same ASCParser returns the model a single parse of the text         *)
(* returns, flags not repeated, and so does convert_asc_to_json with a     *)
(* json_file_path, which parses and then parses again to save: the model   *)
(* it hands back (the first call's) and the model saved (the second        *)
(* call's) both equal that of a single parse.                              *)
(***************************************************************************)
C22_ParseIdempotent ==
    calls >= 2 =>
        /\ result.status = ParseText(file).status
        /\ result.data = ParseText(file).data
        /\ held = ParseText(file).data

(***************************************************************************)
(* The junctions before and after _process_junctions                       *)
(***************************************************************************)
JunctionsIn == RowsNamed(df, "junction")

JunctionsAligned == AlignJunctions(JunctionsIn)

Processed ==
    /\ stage \in {"junctions", "generated", "converted"}
    /\ junction_data = SnapToGrid(JunctionsAligned)

(***************************************************************************)
(* C23  Scenario B: junctions at (100, 100) and (130, 100) are aligned to  *)
(* one x; after snapping both have the same x, a multiple of 16; the pair  *)
(* is classified vertical or horizontal by the axis on which the two       *)
(* points still differ.                                                    *)
(***************************************************************************)
ScenarioB == <<Det("junction", 100, 100), Det("junction", 130, 100)>>

C23_ScenarioB ==
    stage \in {"junctions", "generated", "converted"} /\ JunctionsIn = ScenarioB =>
        /\ JunctionsAligned[1].xcenter = JunctionsAligned[2].xcenter
        /\ junction_data[1].xcenter = junction_data[2].xcenter
        /\ OnGrid(junction_data[1].xcenter)
        /\ Len(wire_lists.wires) = 1
        /\ LET w == wire_lists.wires[1]
           IN /\ w.orientation = "v" <=> w.y_start # w.y_end
              /\ w.orientation = "h" <=> w.x_start # w.x_end

(***************************************************************************)
(* C24  Alignment on x: two junctions whose x centers differ by less than  *)
(* 50, or that a chain of such pairs links, have the same x center after   *)
(* the alignment pass, the x of the first junction of their group.         *)
(***************************************************************************)
CloseOnX(a, b) == Abs(a.xcenter - b.xcenter) < 50

CloseOnY(a, b) == Abs(a.ycenter - b.ycenter) < 50

\* the junctions a chain of pairs close on x links to those of S
RECURSIVE GroupFrom(_, _)
GroupFrom(rows, S) ==
    LET T == S \cup {j \in 1..Len(rows) : \E i \in S : CloseOnX(rows[i], rows[j])}
    IN IF T = S THEN S ELSE GroupFrom(rows, T)

AlignmentGroup(rows, i) == GroupFrom(rows, {i})

FirstOf(S) == CHOOSE i \in S : \A j \in S : i <= j

C24_AlignedOnX ==
    Processed =>
        \A i \in 1..Len(JunctionsIn) : \A j \in AlignmentGroup(JunctionsIn, i) :
            /\ JunctionsAligned[i].xcenter = JunctionsAligned[j].xcenter
            /\ JunctionsAligned[i].xcenter =
                  JunctionsIn[FirstOf(AlignmentGroup(JunctionsIn, i))].xcenter

(***************************************************************************)
(* C25  Else-if precedence: two junctions less than 50 apart on both axes  *)
(* are aligned on x only; with exactly those two as input the output has   *)
(* one x, and each y is its own y snapped down to the grid.                *)
(***************************************************************************)
SnappedDown(n) == n - (n % 16)

CloseOnBothAxes ==
    /\ Len(JunctionsIn) = 2
    /\ CloseOnX(JunctionsIn[1], JunctionsIn[2])
    /\ CloseOnY(JunctionsIn[1], JunctionsIn[2])

C25_ElseIfPrecedence ==
    Processed /\ CloseOnBothAxes =>
        /\ junction_data[1].xcenter = junction_data[2].xcenter
        /\ \A k \in 1..2 :
              /\ JunctionsAligned[k].ycenter = JunctionsIn[k].ycenter
              /\ junction_data[k].ycenter = SnappedDown(JunctionsIn[k].ycenter)

C25_Witness ==
    /\ Processed
    /\ CloseOnBothAxes
    /\ JunctionsIn[1].ycenter # JunctionsIn[2].ycenter
    /\ junction_data[1].ycenter # junction_data[2].ycenter

(***************************************************************************)
(* C26  Wire synthesis takes every unordered pair of distinct junction     *)
(* records exactly once: at most n(n-1)/2 wires for n junctions, no pair   *)
(* in both orders, no junction with itself, and the list of all wires is   *)
(* the horizontal and the vertical list together, which are disjoint.      *)
(***************************************************************************)
\* the pairs (i, j) with i < j <= n, in the order of the double loop
PairsInOrder(n) ==
    Flatten([i \in 1..n |-> [d \in 1..(n - i) |-> <<i, i + d>>]])

WireOfPair(pair) ==
    Wire(junction_data[pair[1]].xcenter, junction_data[pair[1]].ycenter,
         junction_data[pair[2]].xcenter, junction_data[pair[2]].ycenter)

WiresOfPairs ==
    SelectSeq([k \in 1..Len(PairsInOrder(Len(junction_data))) |->
                  WireOfPair(PairsInOrder(Len(junction_data))[k])],
              LAMBDA w : w.orientation # "o")

HasOrientation(list, o) == SelectSeq(list, LAMBDA w : w.orientation = o)

C26_EachPairOnce ==
    Processed =>
        /\ wire_lists.wires = WiresOfPairs
        /\ 2 * Len(wire_lists.wires) <= Len(junction_data) * (Len(junction_data) - 1)
        /\ wire_lists.wires_horizontal = HasOrientation(wire_lists.wires, "h")
        /\ wire_lists.wires_vertical = HasOrientation(wire_lists.wires, "v")
        /\ Len(wire_lists.wires) =
              Len(wire_lists.wires_horizontal) + Len(wire_lists.wires_vertical)
        /\ \A h \in 1..Len(wire_lists.wires_horizontal) :
              ~InList(wire_lists.wires_horizontal[h], wire_lists.wires_vertical)

C26_Witness ==
    /\ Processed
    /\ Len(junction_data) >= 3
    /\ Len(wire_lists.wires_horizontal) >= 1
    /\ Len(wire_lists.wires_vertical) >= 1
    /\ 2 * Len(wire_lists.wires) < Len(junction_data) * (Len(junction_data) - 1)

(***************************************************************************)
(* C27  Containment test: a detection attaches to a vertical wire exactly  *)
(* when its y is strictly between y_start and y_end and its x is less than *)
(* the tolerance away from the wire's x, to a horizontal wire exactly when *)
(* its x is strictly between x_start and x_end and its y is less than the  *)
(* tolerance away from the wire's y; tolerances 35 (resistor, inductor),   *)
(* 25 (voltage sources), 50 / 25 (capacitor, vertical / horizontal).       *)
(***************************************************************************)
\* the test as claimed; a wire's x (y) is its x_start (y_start), the
\* coordinate placement takes from it
ClaimedAttach(class, row, wire, o) ==
    IF o = "v"
    THEN /\ wire.orientation = "v"
         /\ wire.y_start < row.ycenter /\ row.ycenter < wire.y_end
         /\ Abs(row.xcenter - wire.x_start) < Tolerance(class, "v")
    ELSE /\ wire.orientation = "h"
         /\ wire.x_start < row.xcenter /\ row.xcenter < wire.x_end
         /\ Abs(row.ycenter - wire.y_start) < Tolerance(class, "h")

ClaimedPlacements ==
    {ExpectedPlacement(class, RowsNamed(df, class)[r], wire_lists.wires[k], o) :
        <<class, r, k, o>> \in
            {t \in PlacedClasses \X (1..Len(df)) \X (1..Len(wire_lists.wires)) \X {"v", "h"} :
                /\ t[2] <= Len(RowsNamed(df, t[1]))
                /\ LoopHasRun(t[1])
                /\ ClaimedAttach(t[1], RowsNamed(df, t[1])[t[2]], wire_lists.wires[t[3]], t[4])}}

EmittedPlacements ==
    {PlacementOf(AscLines[n]) : n \in {m \in 1..Len(AscLines) : IsSymbolEntry(AscLines[m])}}

C27_ContainmentTest == Generated => EmittedPlacements = ClaimedPlacements

(***************************************************************************)
(* C28  No two components of one reconstruction carry the same instance    *)
(* name: the InstName values of the SYMATTR lines of the output text are   *)
(* pairwise distinct, those of voltage-dc and voltage-dc_ac included.      *)
(***************************************************************************)
InstNameLines(text) ==
    SelectSeq([k \in 1..Len(ReadLines(text)) |-> Split(ReadLines(text)[k])],
              LAMBDA parts : Len(parts) >= 3 /\ parts[1] = K_SYMATTR
                             /\ parts[2] = K_InstName)

C28_InstNamesDistinct ==
    asc_content.status = "returned" =>
        LET names == InstNameLines(asc_content.text)
        IN \A i, j \in 1..Len(names) : i # j => names[i][3] # names[j][3]

(***************************************************************************)
(* C29  Every wire _process_junctions returns has two distinct endpoints:  *)
(* no wire with x_start = x_end and y_start = y_end is made or emitted,    *)
(* even when two junction records end on the same point.                   *)
(***************************************************************************)
ZeroLength(w) == w.x_start = w.x_end /\ w.y_start = w.y_end

C29_NoZeroLengthWire ==
    /\ \A k \in 1..Len(wire_lists.wires) : ~ZeroLength(wire_lists.wires[k])
    /\ \A n \in 1..Len(AscLines) :
          IsWireEntry(AscLines[n]) =>
              ~(AscLines[n][3] = AscLines[n][7] /\ AscLines[n][5] = AscLines[n][9])

====
